---- MODULE Spec2Model ----
(***************************************************************************)
(* Model of the reflection helper of fulfillment-cli (package reflection): *)
(* the one-time scan of the protobuf registry that discovers the object    *)
(* types supporting Get/List/Update/Delete, and the registry operations    *)
(* Singulars, Plurals and Lookup used by concurrent callers.               *)
(*                                                                         *)
(* Strings that the code lower-cases, compares or sorts are sequences of   *)
(* ASCII codes (protobuf identifiers are ASCII), so that strings.ToLower,  *)
(* strings.EqualFold, sort.Strings and the pluralizer are computed and not *)
(* assumed.  Names that are only compared for identity are TLA+ strings.   *)
(***************************************************************************)
EXTENDS Integers, Sequences, FiniteSets, TLC

\* Number of goroutines that call the read operations of one Helper.
NumCallers == 2

\* Largest number of services the registry enumeration yields.
MaxServices == 2

Callers == 1..NumCallers

\* The nil descriptor / nil interface value.
Nil == [nil |-> TRUE]

-----------------------------------------------------------------------------
(* Strings *)

\* unicode.ToLower on one ASCII code.
ToLowerChar(c) == IF c >= 65 /\ c <= 90 THEN c + 32 ELSE c

\* unicode.ToUpper on one ASCII code.
ToUpperChar(c) == IF c >= 97 /\ c <= 122 THEN c - 32 ELSE c

\* strings.ToLower
ToLower(s) == [i \in 1..Len(s) |-> ToLowerChar(s[i])]

\* strings.ToUpper (used to build inputs of Lookup)
ToUpper(s) == [i \in 1..Len(s) |-> ToUpperChar(s[i])]

\* A mixed-case rendering: odd positions upper case, even positions lower case.
ToMixed(s) == [i \in 1..Len(s) |-> IF i % 2 = 1 THEN ToUpperChar(s[i]) ELSE ToLowerChar(s[i])]

\* A comparison that does not fold case.
EqualExact(a, b) == a = b

\* strings.EqualFold on ASCII strings: equal under simple case folding.
EqualFold(a, b) ==
    /\ Len(a) = Len(b)
    /\ \A i \in 1..Len(a) : ToLowerChar(a[i]) = ToLowerChar(b[i])

\* The < of Go strings: bytewise lexicographic order.
StringLess(a, b) ==
    \E k \in 1..(Len(b)) :
        /\ \A i \in 1..(k - 1) : i <= Len(a) /\ a[i] = b[i]
        /\ \/ k = Len(a) + 1
           \/ k <= Len(a) /\ a[k] < b[k]

\* Insert one string into a sorted list, after the entries that are not greater.
RECURSIVE Insert(_, _)
Insert(sorted, s) ==
    IF sorted = <<>> THEN <<s>>
    ELSE IF StringLess(s, Head(sorted)) THEN <<s>> \o sorted
    ELSE <<Head(sorted)>> \o Insert(Tail(sorted), s)

\* sort.Strings: the entries of the list in increasing order, duplicates kept.
RECURSIVE SortStrings(_)
SortStrings(list) ==
    IF list = <<>> THEN <<>>
    ELSE Insert(SortStrings(Tail(list)), Head(list))

HasSuffix(s, suffix) ==
    /\ Len(s) >= Len(suffix)
    /\ SubSeq(s, Len(s) - Len(suffix) + 1, Len(s)) = suffix

IsVowelOrY(c) == c \in {97, 101, 105, 111, 117, 121}

\* pluralize.Client.Plural on a lower-case ASCII word, restricted to the rules
\* that the words of this model can trigger, in the library's precedence:
\*   (x|ch|ss|sh|zz)$ -> $1es ; ([^aeiouy]|qu)y$ -> $1ies ; s?$ -> s
Plural(word) ==
    IF word = <<>> THEN word
    ELSE IF \/ HasSuffix(word, <<120>>)
            \/ HasSuffix(word, <<99, 104>>)
            \/ HasSuffix(word, <<115, 115>>)
            \/ HasSuffix(word, <<115, 104>>)
            \/ HasSuffix(word, <<122, 122>>)
         THEN word \o <<101, 115>>
    ELSE IF /\ HasSuffix(word, <<121>>)
            /\ Len(word) >= 2
            /\ ~IsVowelOrY(word[Len(word) - 1])
         THEN SubSeq(word, 1, Len(word) - 1) \o <<105, 101, 115>>
    ELSE IF HasSuffix(word, <<115>>) THEN word
    ELSE word \o <<115>>

-----------------------------------------------------------------------------
(* Descriptors of the protobuf registry *)

\* Frequently used names (the constants of the package).
deleteMethodName == "Delete"
getMethodName == "Get"
listMethodName == "List"
updateMethodName == "Update"
filterFieldName == "filter"
idFieldName == "id"
itemsFieldName == "items"
objectFieldName == "object"

\* Short names of the object messages, protoreflect.Name, as ASCII codes.
ClusterName == <<67, 108, 117, 115, 116, 101, 114>>
ClustersName == <<67, 108, 117, 115, 116, 101, 114, 115>>
ClusterOrderName == <<67, 108, 117, 115, 116, 101, 114, 79, 114, 100, 101, 114>>
HostClassName == <<72, 111, 115, 116, 67, 108, 97, 115, 115>>
EventName == <<69, 118, 101, 110, 116>>

\* The kinds of service the enumeration can yield: each is a service built
\* around one object message.
Kinds == {"Cluster", "PrivateCluster", "Clusters", "ClusterOrder", "HostClass"}

\* protoreflect.MessageDescriptor of the object message of a kind of service.
ObjectDesc(kind) ==
    CASE kind = "Cluster" -> [fullName |-> "fulfillment.v1.Cluster", name |-> ClusterName]
      [] kind = "PrivateCluster" -> [fullName |-> "private.v1.Cluster", name |-> ClusterName]
      [] kind = "Clusters" -> [fullName |-> "fleet.v1.Clusters", name |-> ClustersName]
      [] kind = "ClusterOrder" -> [fullName |-> "fulfillment.v1.ClusterOrder", name |-> ClusterOrderName]
      [] kind = "HostClass" -> [fullName |-> "fulfillment.v1.HostClass", name |-> HostClassName]

\* A message that is the object of no service.
EventDesc == [fullName |-> "fulfillment.v1.Event", name |-> EventName]

\* protoreflect.ServiceDescriptor.FullName
ServiceName(kind) ==
    CASE kind = "Cluster" -> "fulfillment.v1.Clusters"
      [] kind = "PrivateCluster" -> "private.v1.Clusters"
      [] kind = "Clusters" -> "fleet.v1.ClustersSets"
      [] kind = "ClusterOrder" -> "fulfillment.v1.ClusterOrders"
      [] kind = "HostClass" -> "fulfillment.v1.HostClasses"

Cardinalities == {"optional", "required", "repeated"}
FieldKinds == {"string", "message", "int32"}
MethodNames == {getMethodName, listMethodName, updateMethodName, deleteMethodName}

\* The request and response messages of the four methods, and the fields the
\* scan looks at.
MessageSlots ==
    {"Get.request", "Get.response", "List.request", "List.response",
     "Update.request", "Update.response", "Delete.request", "Delete.response"}
FieldSlots ==
    {"Get.request.id", "Get.response.object", "List.request.filter", "List.response.items",
     "Update.request.object", "Update.response.object", "Delete.request.id"}
ObjectFieldSlots ==
    {"Get.response.object", "List.response.items", "Update.request.object",
     "Update.response.object"}

\* How one service departs from the conventional shape: nothing, a method that
\* is absent or spelled in lower case, a field that is absent or has another
\* cardinality, kind or message type, or a message that the type registry
\* does not know; or a Create method next to the four.
NoVariant == [on |-> "none", how |-> "none", to |-> "none"]
Variants ==
    {NoVariant}
    \cup [on : MethodNames, how : {"absent", "lowercase"}, to : {"none"}]
    \cup [on : FieldSlots, how : {"absent"}, to : {"none"}]
    \cup [on : FieldSlots, how : {"cardinality"}, to : Cardinalities]
    \cup [on : FieldSlots, how : {"kind"}, to : FieldKinds]
    \cup [on : ObjectFieldSlots, how : {"type"}, to : {"Event"}]
    \cup [on : MessageSlots \cup {"object"}, how : {"unregistered"}, to : {"none"}]
    \cup {[on |-> "Create", how |-> "present", to |-> "none"]}

\* protoreflect.FieldDescriptor: Name, Cardinality, Kind and Message (nil unless
\* the kind is message).
FieldDesc(name, cardinality, kind, message) ==
    [name |-> name, cardinality |-> cardinality, kind |-> kind,
     message |-> IF kind = "message" THEN message ELSE Nil]

\* The field of a slot in the conventional shape.
BaseField(slot, object) ==
    CASE slot \in {"Get.request.id", "Delete.request.id"} ->
            FieldDesc(idFieldName, "optional", "string", object)
      [] slot = "List.request.filter" ->
            FieldDesc(filterFieldName, "optional", "string", object)
      [] slot = "List.response.items" ->
            FieldDesc(itemsFieldName, "repeated", "message", object)
      [] OTHER ->
            FieldDesc(objectFieldName, "optional", "message", object)

\* The field of a slot as the variant of the service shapes it, as a set of zero
\* or one field.
SlotFields(slot, object, v) ==
    LET base == BaseField(slot, object)
    IN  IF v.on # slot THEN {base}
        ELSE CASE v.how = "absent" -> {}
               [] v.how = "cardinality" -> {FieldDesc(base.name, v.to, base.kind, object)}
               [] v.how = "kind" -> {FieldDesc(base.name, base.cardinality, v.to, object)}
               [] v.how = "type" -> {FieldDesc(base.name, base.cardinality, base.kind, EventDesc)}
               [] OTHER -> {base}

\* Fields that the scan does not look for.
OtherFields(slot) ==
    CASE slot = "List.request" -> {FieldDesc("limit", "optional", "int32", Nil)}
      [] slot = "List.response" -> {FieldDesc("total", "optional", "int32", Nil)}
      [] OTHER -> {}

\* Full name of the request or response message of a slot of a service.
MessageName(kind, slot) ==
    ServiceName(kind)
    \o (CASE slot = "Get.request" -> "GetRequest" [] slot = "Get.response" -> "GetResponse"
          [] slot = "List.request" -> "ListRequest" [] slot = "List.response" -> "ListResponse"
          [] slot = "Update.request" -> "UpdateRequest"
          [] slot = "Update.response" -> "UpdateResponse"
          [] slot = "Delete.request" -> "DeleteRequest"
          [] slot = "Create.request" -> "CreateRequest"
          [] slot = "Create.response" -> "CreateResponse"
          [] OTHER -> "DeleteResponse")

\* protoreflect.MessageDescriptor of a request or response message.
MessageDesc(kind, slot, v) ==
    [fullName |-> MessageName(kind, slot),
     fields |-> OtherFields(slot)
                \cup UNION {SlotFields(f, ObjectDesc(kind), v) :
                               f \in {g \in FieldSlots :
                                         g \in {slot \o ".id", slot \o ".object",
                                                slot \o ".filter", slot \o ".items"}}}
                \cup (IF slot \in {"Create.request", "Create.response"}
                      THEN {BaseField(slot \o ".object", ObjectDesc(kind))}
                      ELSE {})]

\* protoreflect.MethodDescriptor: Name, the full name of the parent service,
\* Input and Output.
MethodDesc(kind, method, v) ==
    [name |-> IF v.on = method /\ v.how = "lowercase"
              THEN (CASE method = "Get" -> "get" [] method = "List" -> "list"
                      [] method = "Update" -> "update" [] OTHER -> "delete")
              ELSE method,
     parent |-> ServiceName(kind),
     input |-> MessageDesc(kind, method \o ".request", v),
     output |-> MessageDesc(kind, method \o ".response", v)]

\* protoreflect.ServiceDescriptor of one enumerated service.
ServiceDesc(svc) ==
    [fullName |-> ServiceName(svc.kind),
     methods |-> {MethodDesc(svc.kind, m, svc.variant) :
                    m \in {n \in MethodNames :
                              ~(svc.variant.on = n /\ svc.variant.how = "absent")}}
                 \cup (IF svc.variant.on = "Create"
                       THEN {MethodDesc(svc.kind, "Create", svc.variant)}
                       ELSE {})]

\* Full names of the messages of a service that protoregistry.GlobalTypes does
\* not know.
UnregisteredOf(svc) ==
    IF svc.variant.how # "unregistered" THEN {}
    ELSE IF svc.variant.on = "object" THEN {ObjectDesc(svc.kind).fullName}
    ELSE {MessageName(svc.kind, svc.variant.on)}

\* A lookup of methods that ignores the case of the first letter.
ByNameAnyCase(descs, name) ==
    LET alt == CASE name = "Get" -> "get" [] name = "List" -> "list"
                 [] name = "Update" -> "update" [] name = "Delete" -> "delete"
                 [] OTHER -> name
    IN  IF \E d \in descs : d.name \in {name, alt}
        THEN CHOOSE d \in descs : d.name \in {name, alt}
        ELSE Nil

\* Descriptors.ByName: the descriptor with the given name, or nil.
ByName(descs, name) ==
    IF \E d \in descs : d.name = name
    THEN CHOOSE d \in descs : d.name = name
    ELSE Nil

-----------------------------------------------------------------------------
(* The scan *)

VARIABLES
    services,   \* the services in the order RangeFiles and scanFile visit them
    helpers,    \* Helper.helpers
    scanOnce,   \* Helper.scanOnce: "idle", "running" (f is executing) or "done"
    cursor,     \* index in services of the next service to scan
    pc,         \* per caller: where it is in a read operation
    failure,    \* the panic raised by the scan, "none" if it raised none
    scans,      \* number of times Helper.scan was started
    last,       \* the read operation that returned last, with its result, until discarded
    call,       \* per caller: the operation of an ObjectHelper it is in, with its messages
    returned,   \* the operation of an ObjectHelper that returned last, until discarded
    run         \* the builder, the token source or the command that the specification is about

vars == <<services, helpers, scanOnce, cursor, pc, failure, scans, last, call, returned, run>>

\* Helper.getIdField
getIdField(messageDesc) ==
    LET fieldDesc == ByName(messageDesc.fields, idFieldName)
    IN  IF fieldDesc = Nil THEN Nil
        ELSE IF fieldDesc.cardinality # "optional" THEN Nil
        ELSE IF fieldDesc.kind # "string" THEN Nil
        ELSE fieldDesc

\* Helper.getObjectField
getObjectField(messageDesc) ==
    LET fieldDesc == ByName(messageDesc.fields, objectFieldName)
    IN  IF fieldDesc = Nil THEN Nil
        ELSE IF fieldDesc.cardinality # "optional" THEN Nil
        ELSE IF fieldDesc.kind # "message" THEN Nil
        ELSE fieldDesc

\* Helper.getFilterField
getFilterField(messageDesc) ==
    LET fieldDesc == ByName(messageDesc.fields, filterFieldName)
    IN  IF fieldDesc = Nil THEN Nil
        ELSE IF fieldDesc.cardinality = "repeated" THEN Nil
        ELSE IF fieldDesc.kind # "string" THEN Nil
        ELSE fieldDesc

\* Helper.getItemsField
getItemsField(messageDesc) ==
    LET fieldDesc == ByName(messageDesc.fields, itemsFieldName)
    IN  IF fieldDesc = Nil THEN Nil
        ELSE IF fieldDesc.cardinality # "repeated" THEN Nil
        ELSE IF fieldDesc.kind # "message" THEN Nil
        ELSE fieldDesc

\* A path that names the service and not the method.
makeMethodPathOfService(methodDesc) == "/" \o methodDesc.parent

\* Helper.makeMethodPath
makeMethodPath(methodDesc) == "/" \o methodDesc.parent \o "/" \o methodDesc.name

\* A blank message of the given type: messageType.New().Interface()
Blank(fullName) == [type |-> fullName, set |-> {}]

\* protoregistry.GlobalTypes.FindMessageByName: is the name registered?
FindMessageByName(unregistered, fullName) == fullName \notin unregistered

\* Helper.makeTemplate: the blank message, or nil where the code panics.
makeTemplate(unregistered, messageDesc) ==
    IF FindMessageByName(unregistered, messageDesc.fullName)
    THEN Blank(messageDesc.fullName)
    ELSE Nil

\* ObjectHelper.Descriptor
Descriptor(h) == h.descriptor

\* A copy that is the original under another name: what it is written through
\* reaches the original.
CloneShared(message) == [shared |-> TRUE, msg |-> message]

\* proto.Clone: a deep copy, a message of its own that shares nothing with the
\* original.
Clone(message) == [shared |-> FALSE, msg |-> message]

\* The message a cloned reference stands for, given the message it was cloned
\* from as it is now.
Deref(ref, original) == IF ref.shared THEN original ELSE ref.msg

\* An Instance that returns the object template itself.
InstanceTemplate(h) == CloneShared(h.template)

\* ObjectHelper.Instance: proto.Clone of the object template.
Instance(h) == Clone(h.template)

\* The ObjectHelper that scanService assembles.
MakeObjectHelper(objectDesc, getDesc, listDesc, updateDesc, deleteDesc, unregistered) ==
    [descriptor |-> objectDesc,
     template |-> makeTemplate(unregistered, objectDesc),
     get |-> [path |-> makeMethodPath(getDesc),
              request |-> makeTemplate(unregistered, getDesc.input),
              response |-> makeTemplate(unregistered, getDesc.output),
              id |-> getIdField(getDesc.input),
              object |-> getObjectField(getDesc.output)],
     list |-> [path |-> makeMethodPath(listDesc),
               request |-> makeTemplate(unregistered, listDesc.input),
               response |-> makeTemplate(unregistered, listDesc.output),
               filter |-> getFilterField(listDesc.input),
               items |-> getItemsField(listDesc.output)],
     update |-> [path |-> makeMethodPath(updateDesc),
                 request |-> makeTemplate(unregistered, updateDesc.input),
                 response |-> makeTemplate(unregistered, updateDesc.output),
                 in |-> getObjectField(updateDesc.input),
                 out |-> getObjectField(updateDesc.output)],
     delete |-> [path |-> makeMethodPath(deleteDesc),
                 request |-> makeTemplate(unregistered, deleteDesc.input),
                 response |-> makeTemplate(unregistered, deleteDesc.output),
                 id |-> getIdField(deleteDesc.input)]]

\* A scan that does not compare the message types.
sameMessageUnchecked(a, b) == TRUE

\* The comparison of two message descriptors in scanService.
sameMessage(a, b) == a = b

\* Outcomes of scanService: the helpers after it, and the panic it raised.
Returned(hs) == [helpers |-> hs, panic |-> "none"]
Panicked(hs, reason) == [helpers |-> hs, panic |-> reason]

\* Helper.scanService, in the order of its statements.  The code calls
\* Message() on the result of getObjectField for the Get response without a
\* nil check; on a nil interface that is a nil pointer dereference.
scanService(hs, serviceDesc, unregistered) ==
    LET methodDescs == serviceDesc.methods
        listDesc == ByName(methodDescs, listMethodName)
        getDesc == ByName(methodDescs, getMethodName)
        updateDesc == ByName(methodDescs, updateMethodName)
        deleteDesc == ByName(methodDescs, deleteMethodName)
        getRequestIdFieldDesc == getIdField(getDesc.input)
        getResponseObjectFieldDesc == getObjectField(getDesc.output)
        objectDesc == getResponseObjectFieldDesc.message
        listRequestFilterFieldDesc == getFilterField(listDesc.input)
        listResponseItemsFieldDesc == getItemsField(listDesc.output)
        updateRequestObjectFieldDesc == getObjectField(updateDesc.input)
        updateResponseObjectFieldDesc == getObjectField(updateDesc.output)
        deleteRequestIdFieldDesc == getIdField(deleteDesc.input)
        templates == {makeTemplate(unregistered, objectDesc)}
                     \cup UNION {{makeTemplate(unregistered, m.input),
                                  makeTemplate(unregistered, m.output)} :
                                    m \in {getDesc, listDesc, updateDesc, deleteDesc}}
    IN  IF listDesc = Nil THEN Returned(hs)
        ELSE IF getDesc = Nil THEN Returned(hs)
        ELSE IF updateDesc = Nil THEN Returned(hs)
        ELSE IF deleteDesc = Nil THEN Returned(hs)
        ELSE IF getRequestIdFieldDesc = Nil THEN Returned(hs)
        ELSE IF getResponseObjectFieldDesc = Nil
             THEN Panicked(hs, "nil pointer dereference")
        ELSE IF listRequestFilterFieldDesc = Nil THEN Returned(hs)
        ELSE IF listResponseItemsFieldDesc = Nil THEN Returned(hs)
        ELSE IF ~sameMessage(listResponseItemsFieldDesc.message, objectDesc) THEN Returned(hs)
        ELSE IF updateRequestObjectFieldDesc = Nil THEN Returned(hs)
        ELSE IF ~sameMessage(updateRequestObjectFieldDesc.message, objectDesc) THEN Returned(hs)
        ELSE IF updateResponseObjectFieldDesc = Nil THEN Returned(hs)
        ELSE IF ~sameMessage(updateResponseObjectFieldDesc.message, objectDesc) THEN Returned(hs)
        ELSE IF deleteRequestIdFieldDesc = Nil THEN Returned(hs)
        ELSE IF Nil \in templates THEN Panicked(hs, "message not found")
        ELSE Returned(Append(hs, MakeObjectHelper(objectDesc, getDesc, listDesc,
                                                  updateDesc, deleteDesc, unregistered)))

\* The names missing from protoregistry.GlobalTypes in this registry.
Unregistered(svcs) == UNION {UnregisteredOf(svcs[i]) : i \in 1..Len(svcs)}

\* Helper.scan run from service i on without interruption: the helpers when it
\* returns or panics.
RECURSIVE scanFrom(_, _, _)
scanFrom(hs, svcs, i) ==
    IF i > Len(svcs) THEN hs
    ELSE LET r == scanService(hs, ServiceDesc(svcs[i]), Unregistered(svcs))
         IN  IF r.panic # "none" THEN r.helpers
             ELSE scanFrom(r.helpers, svcs, i + 1)

\* Helper.scan on a Helper as Build returns it.
scan(svcs) == scanFrom(<<>>, svcs, 1)

-----------------------------------------------------------------------------
(* The read operations *)

\* Singulars without the call of sort.Strings.
SingularsUnsorted(hs) == [i \in 1..Len(hs) |-> ToLower(hs[i].descriptor.name)]

\* Helper.Singulars after scanIfNeeded: the lower-cased names, sorted.
Singulars(hs) ==
    SortStrings([i \in 1..Len(hs) |-> ToLower(hs[i].descriptor.name)])

\* Plurals computed entry by entry from the sorted singulars.
PluralsOfSingulars(hs) == [i \in 1..Len(hs) |-> Plural(Singulars(hs)[i])]

\* Helper.Plurals after scanIfNeeded: the plurals of the lower-cased names, sorted.
Plurals(hs) ==
    SortStrings([i \in 1..Len(hs) |-> Plural(ToLower(hs[i].descriptor.name))])

\* The loop of Helper.Lookup from index i on: the index of the first helper whose
\* singular or plural folds to objectType, 0 for the nil result.
RECURSIVE LookupFrom(_, _, _)
LookupFrom(hs, objectType, i) ==
    IF i > Len(hs) THEN 0
    ELSE LET singular == ToLower(hs[i].descriptor.name)
             plural == Plural(singular)
         IN  IF EqualFold(objectType, singular) THEN i
             ELSE IF EqualFold(objectType, plural) THEN i
             ELSE LookupFrom(hs, objectType, i + 1)

\* A loop that keeps the last match instead of returning the first.
RECURSIVE LookupLastFrom(_, _, _)
LookupLastFrom(hs, objectType, i) ==
    IF i < 1 THEN 0
    ELSE LET singular == ToLower(hs[i].descriptor.name)
         IN  IF EqualFold(objectType, singular) \/ EqualFold(objectType, Plural(singular))
             THEN i
             ELSE LookupLastFrom(hs, objectType, i - 1)

LookupLast(hs, objectType) == LookupLastFrom(hs, objectType, Len(hs))

\* Helper.Lookup after scanIfNeeded: &helpers[i] as the index i, nil as 0.
Lookup(hs, objectType) == LookupFrom(hs, objectType, 1)

\* A Once that tests its flag without taking the mutex: a caller that arrives
\* while f is executing returns at once.
onceDoNoLock(state) == IF state = "idle" THEN "run" ELSE "skip"

\* sync.Once.Do as seen by a caller that arrives in the given state of the
\* Once: it runs f, waits on the mutex held by the caller running f, or
\* returns at once because f has completed.
onceDo(state) ==
    IF state = "done" THEN "skip"
    ELSE IF state = "running" THEN "wait"
    ELSE "run"

-----------------------------------------------------------------------------
-----------------------------------------------------------------------------
(* The operations of an ObjectHelper *)

\* protoreflect.Message.Set: the field holds the value; a message is its type
\* and the set of <<field name, value>> of its populated fields.
SetField(message, field, value) ==
    [message EXCEPT !.set = {p \in @ : p[1] # field.name} \cup {<<field.name, value>>}]

\* protoreflect.Message.Has
HasField(message, field) == \E p \in message.set : p[1] = field.name

\* protoreflect.Message.Get of a populated field.
GetField(message, field) == (CHOOSE p \in message.set : p[1] = field.name)[2]

\* ObjectHelper.setId
setId(message, field, value) == SetField(message, field, value)

\* A setObject that leaves the message as it is.
setObjectNothing(message, field, value) == message

\* ObjectHelper.setObject
setObject(message, field, value) == SetField(message, field, value)

\* A getObject that returns a blank object whatever the message carries.
getObjectBlank(message, field) == Blank(field.message.fullName)

\* ObjectHelper.getObject: the message of the field; Get of a field that is not
\* populated gives the empty message of the field's type.
getObject(message, field) ==
    IF HasField(message, field) THEN GetField(message, field)
    ELSE Blank(field.message.fullName)

\* The nil error, and an error of the transport.
NoError == [msg |-> "", unwrap |-> ""]
TransportError(text) == [msg |-> text, unwrap |-> ""]

\* fmt.Errorf with %v: the text of the error, the error itself is lost.
ErrorfOpaque(prefix, err) == [msg |-> prefix \o err.msg, unwrap |-> ""]

\* fmt.Errorf with %w: the text of the error, and the error for errors.Unwrap.
Errorf(prefix, err) == [msg |-> prefix \o err.msg, unwrap |-> err.msg]

\* A transport client that calls again when the call fails.
InvokeRetry(path, request, reply) ==
    IF reply.err # NoError
    THEN <<[path |-> path, request |-> request], [path |-> path, request |-> request]>>
    ELSE <<[path |-> path, request |-> request]>>

\* connection.Invoke as an operation calls it: the remote calls made on the
\* connection, given the reply of the server.
Invoke(path, request, reply) == <<[path |-> path, request |-> request]>>

\* A List that never sends the filter.
ListWritesNothing(h, options) == {}

\* ObjectHelper.List before Invoke: what it sets on the clone of the request
\* template, as a set of <<field, value>>.
ListWrites(h, options) ==
    IF options.Filter # "" THEN {<<h.list.filter, options.Filter>>} ELSE {}

\* ObjectHelper.List after Invoke.
ListReturn(h, response, err) ==
    IF err # NoError THEN [result |-> Nil, err |-> err]
    ELSE [result |-> IF HasField(response, h.list.items)
                     THEN GetField(response, h.list.items)
                     ELSE <<>>,
          err |-> NoError]

\* ObjectHelper.Get before Invoke.
GetWrites(h, id) == {<<h.get.id, id>>}

\* ObjectHelper.Get after Invoke.
GetReturn(h, response, err) ==
    IF err # NoError THEN [result |-> Nil, err |-> err]
    ELSE [result |-> getObject(response, h.get.object), err |-> NoError]

\* ObjectHelper.Update before Invoke.
UpdateWrites(h, object) == {<<h.update.in, object>>}

\* ObjectHelper.Update after Invoke: the error is wrapped, and the object of
\* the response is read whether the call failed or not.
UpdateReturn(h, response, err) ==
    [result |-> getObject(response, h.update.out),
     err |-> IF err # NoError THEN Errorf("failed to update object: ", err) ELSE NoError]

\* ObjectHelper.Delete before Invoke.
DeleteWrites(h, id) == {<<h.delete.id, id>>}

\* ObjectHelper.Delete after Invoke.
DeleteReturn(h, response, err) == [result |-> Nil, err |-> err]

\* The operations that make a remote call, named as the field of the
\* ObjectHelper that holds their methodInfo.
Operations == {"get", "list", "update", "delete"}

\* What an operation sets on its request.
Writes(h, op, arg) ==
    CASE op = "get" -> GetWrites(h, arg)
      [] op = "list" -> ListWrites(h, arg)
      [] op = "update" -> UpdateWrites(h, arg)
      [] OTHER -> DeleteWrites(h, arg)

\* The message with the writes of an operation applied: setId, setObject or Set
\* of the filter.
ApplyWrites(message, writes) ==
    IF writes = {} THEN message
    ELSE LET w == CHOOSE x \in writes : TRUE
         IN  IF w[1].name = idFieldName THEN setId(message, w[1], w[2])
             ELSE IF w[1].name = objectFieldName THEN setObject(message, w[1], w[2])
             ELSE SetField(message, w[1], w[2])

\* What an operation returns, given the response and the error of Invoke.
Outcome(h, op, response, err) ==
    CASE op = "get" -> GetReturn(h, response, err)
      [] op = "list" -> ListReturn(h, response, err)
      [] op = "update" -> UpdateReturn(h, response, err)
      [] OTHER -> DeleteReturn(h, response, err)

(* Inputs *)

\* The services a registry of the read operations' checks is made of: the five
\* conventional services and three services that are not.
Pool ==
    [kind : Kinds, variant : {NoVariant}]
    \cup [kind : {"HostClass"},
          variant : {[on |-> "Delete", how |-> "absent", to |-> "none"],
                     [on |-> "Get.response.object", how |-> "absent", to |-> "none"],
                     [on |-> "Get.request", how |-> "unregistered", to |-> "none"]}]

\* The services a registry of the scan's checks is made of: two conventional
\* services and one service in every variant.
ScanPool ==
    [kind : {"Cluster", "ClusterOrder"}, variant : {NoVariant}]
    \cup [kind : {"HostClass"}, variant : Variants]

\* The enumerations of exactly n services of a pool; the full name of a service
\* is unique in a registry.
RECURSIVE SchemasOfLen(_, _)
SchemasOfLen(pool, n) ==
    IF n = 0 THEN {<<>>}
    ELSE UNION {{Append(s, svc) :
                    svc \in {x \in pool : \A i \in DOMAIN s : s[i].kind # x.kind}} :
                  s \in SchemasOfLen(pool, n - 1)}

\* The enumerations of at most MaxServices services of a pool.
Schemas(pool) == UNION {SchemasOfLen(pool, n) : n \in 0..MaxServices}

\* Arguments of Lookup: the singular and plural of every object name in lower,
\* upper and mixed case, a name that is no object, and the empty string.
LookupNames ==
    LET lowers == {ToLower(ObjectDesc(k).name) : k \in Kinds}
        forms == lowers \cup {Plural(w) : w \in lowers}
    IN  forms \cup {ToUpper(w) : w \in forms} \cup {ToMixed(w) : w \in forms}
        \cup {EventName, <<>>}

\* Arguments of Lookup where the registry, not the name, is what varies.
ScanLookupNames == {ToLower(HostClassName), ToUpper(Plural(ToLower(ClusterName))), EventName}

NoCall == [op |-> "none", arg |-> <<>>, names |-> <<>>, index |-> 0]

\* The services a registry of the operations' checks is made of.
CallPool == [kind : {"Cluster", "HostClass"}, variant : {NoVariant}]

\* Arguments of Lookup in the operations' checks.
CallLookupNames == {ToLower(ClusterName), Plural(ToLower(HostClassName))}

\* Identifiers, filters and errors of the transport.
Ids == {"123", "456"}
Filters == {"", "x"}
TransportErrors == {"unavailable"}

\* The id field of an object message.
ObjectIdField == FieldDesc(idFieldName, "optional", "string", Nil)

\* The objects of the type of a resource that callers and servers send.
Objects(h) == {SetField(Blank(h.descriptor.fullName), ObjectIdField, id) : id \in Ids}

\* The lists of distinct objects, in every order.
ObjectLists(h) ==
    {<<>>} \cup {<<o>> : o \in Objects(h)}
    \cup {<<o[1], o[2]>> : o \in {x \in Objects(h) \X Objects(h) : x[1] # x[2]}}

\* The arguments a caller gives to an operation.
Arguments(h, op) ==
    CASE op = "list" -> [Filter : Filters]
      [] op = "update" -> Objects(h)
      [] OTHER -> Ids

\* The replies of the server to the remote call of an operation: an error, or a
\* response message of the method's output type.
Replies(h, op) ==
    [err : {TransportError(e) : e \in TransportErrors}, response : {Nil}]
    \cup [err : {NoError},
          response :
            CASE op = "get" ->
                    {h.get.response}
                    \cup {SetField(h.get.response, h.get.object, o) : o \in Objects(h)}
              [] op = "update" ->
                    {h.update.response}
                    \cup {SetField(h.update.response, h.update.out, o) : o \in Objects(h)}
              [] op = "list" ->
                    {h.list.response}
                    \cup {SetField(h.list.response, h.list.items, l) :
                             l \in ObjectLists(h) \ {<<>>}}
              [] OTHER -> {h.delete.response}]

\* The ObjectHelpers a caller can hold: those that Lookup returns for a name.
Handles(hs) ==
    {i \in 1..Len(hs) :
        \/ Lookup(hs, ToLower(hs[i].descriptor.name)) = i
        \/ Lookup(hs, Plural(ToLower(hs[i].descriptor.name))) = i}

NoInvocation == [op |-> "none", handle |-> 0, arg |-> "", request |-> Nil]

NoReturn ==
    [op |-> "none", handle |-> 0, arg |-> "", calls |-> <<>>,
     reply |-> Nil, result |-> Nil, err |-> NoError]

-----------------------------------------------------------------------------
(* The state machine *)

\* No builder, token source or command: the specification is about a Helper.
NoRun == [kind |-> "none"]

\* The Helper as Build returns it, before any read operation.
InitHelper ==
    /\ helpers = <<>>
    /\ scanOnce = "idle"
    /\ cursor = 1
    /\ pc = [t \in Callers |-> "idle"]
    /\ failure = "none"
    /\ scans = 0
    /\ last = NoCall
    /\ call = [t \in Callers |-> NoInvocation]
    /\ returned = NoReturn

Init == services \in Schemas(Pool) /\ InitHelper /\ run = NoRun

InitScan == services \in Schemas(ScanPool) /\ InitHelper /\ run = NoRun

\* The registries of the operations' checks enumerate the Cluster service first.
InitCalls ==
    /\ services \in {s \in Schemas(CallPool) : s # <<>> /\ s[1].kind = "Cluster"}
    /\ InitHelper
    /\ run = NoRun

\* scanIfNeeded by the first caller: scanOnce.Do starts h.scan.
ScanIfNeededRun(t) ==
    /\ pc[t] = "idle"
    /\ onceDo(scanOnce) = "run"
    /\ scanOnce' = "running"
    /\ scans' = scans + 1
    /\ pc' = [pc EXCEPT ![t] = "scanning"]
    /\ UNCHANGED <<services, helpers, cursor, failure, last, call, returned, run>>

\* scanIfNeeded while another caller runs the scan: the caller blocks in Do.
ScanIfNeededWait(t) ==
    /\ pc[t] = "idle"
    /\ onceDo(scanOnce) = "wait"
    /\ pc' = [pc EXCEPT ![t] = "waiting"]
    /\ UNCHANGED <<services, helpers, scanOnce, cursor, failure, scans, last, call, returned, run>>

\* A blocked caller continues once the Once is done.
ScanIfNeededResume(t) ==
    /\ pc[t] = "waiting"
    /\ scanOnce = "done"
    /\ pc' = [pc EXCEPT ![t] = "ready"]
    /\ UNCHANGED <<services, helpers, scanOnce, cursor, failure, scans, last, call, returned, run>>

\* scanIfNeeded has returned to the caller of a read operation: it ran the
\* scan or waited for it, or it finds the Once done and Do returns at once.
PastScanIfNeeded(t) ==
    /\ last = NoCall
    /\ returned = NoReturn
    /\ \/ pc[t] = "ready"
       \/ pc[t] = "idle" /\ onceDo(scanOnce) = "skip"

\* One iteration of the loops of scan and scanFile: scanService on the next
\* service.  A panic unwinds through Do, whose deferred calls mark the Once done
\* and release its mutex, and reaches the caller of the read operation.
ScanService(t) ==
    /\ pc[t] = "scanning"
    /\ cursor <= Len(services)
    /\ LET r == scanService(helpers, ServiceDesc(services[cursor]), Unregistered(services))
       IN  /\ helpers' = r.helpers
           /\ IF r.panic = "none"
              THEN /\ cursor' = cursor + 1
                   /\ UNCHANGED <<scanOnce, pc, failure, run>>
              ELSE /\ failure' = r.panic
                   /\ scanOnce' = "done"
                   /\ pc' = [pc EXCEPT ![t] = "panicked"]
                   /\ UNCHANGED cursor
    /\ UNCHANGED <<services, scans, last, call, returned, run>>

\* The scan has visited every service: Do marks the Once done and returns.
ScanReturn(t) ==
    /\ pc[t] = "scanning"
    /\ cursor > Len(services)
    /\ scanOnce' = "done"
    /\ pc' = [pc EXCEPT ![t] = "ready"]
    /\ UNCHANGED <<services, helpers, cursor, failure, scans, last, call, returned, run>>

\* Helper.Singulars returns.
DoSingulars(t) ==
    /\ PastScanIfNeeded(t)
    /\ last' = [op |-> "Singulars", arg |-> <<>>,
                names |-> Singulars(helpers), index |-> 0]
    /\ pc' = [pc EXCEPT ![t] = "idle"]
    /\ UNCHANGED <<services, helpers, scanOnce, cursor, failure, scans, call, returned, run>>

\* Helper.Plurals returns.
DoPlurals(t) ==
    /\ PastScanIfNeeded(t)
    /\ last' = [op |-> "Plurals", arg |-> <<>>,
                names |-> Plurals(helpers), index |-> 0]
    /\ pc' = [pc EXCEPT ![t] = "idle"]
    /\ UNCHANGED <<services, helpers, scanOnce, cursor, failure, scans, call, returned, run>>

\* Helper.Lookup returns.
DoLookup(t, objectType) ==
    /\ PastScanIfNeeded(t)
    /\ last' = [op |-> "Lookup", arg |-> objectType,
                names |-> <<>>, index |-> Lookup(helpers, objectType)]
    /\ pc' = [pc EXCEPT ![t] = "idle"]
    /\ UNCHANGED <<services, helpers, scanOnce, cursor, failure, scans, call, returned, run>>

\* The caller of the read operation that returned takes its result; the record
\* of the call is kept for one step only, to keep the state space small.
Discard ==
    /\ last # NoCall
    /\ last' = NoCall
    /\ UNCHANGED <<services, helpers, scanOnce, cursor, pc, failure, scans, call, returned, run>>

\* A caller that is in no operation and can hold an ObjectHelper, Lookup
\* having returned.
CanStart(t) ==
    /\ pc[t] = "idle"
    /\ scanOnce = "done"
    /\ last = NoCall
    /\ returned = NoReturn

\* Get, List, Update or Delete on the ObjectHelper i that Lookup returned, up to
\* the remote call: the request template is cloned and the argument is set on
\* the clone.
BeginCall(t, i, op, arg) ==
    /\ CanStart(t)
    /\ LET h == helpers[i]
           ref == Clone(h[op].request)
           request == ApplyWrites(Deref(ref, h[op].request), Writes(h, op, arg))
       IN  /\ call' = [call EXCEPT ![t] = [op |-> op, handle |-> i, arg |-> arg,
                                           request |-> [shared |-> ref.shared,
                                                        msg |-> request]]]
           /\ helpers' = IF ref.shared
                         THEN [helpers EXCEPT ![i][op].request = request]
                         ELSE helpers
    /\ pc' = [pc EXCEPT ![t] = "calling"]
    /\ UNCHANGED <<services, scanOnce, cursor, failure, scans, last, returned, run>>

\* The rest of Get, List, Update or Delete: the response template is cloned,
\* Invoke sends the request and fills the clone with the reply of the server or
\* returns its error, and the operation returns.
CompleteCall(t, reply) ==
    /\ pc[t] = "calling"
    /\ last = NoCall
    /\ returned = NoReturn
    /\ reply \in Replies(helpers[call[t].handle], call[t].op)
    /\ LET i == call[t].handle
           op == call[t].op
           h == helpers[i]
           request == Deref(call[t].request, h[op].request)
           ref == Clone(h[op].response)
           response == IF reply.err = NoError THEN reply.response
                       ELSE Deref(ref, h[op].response)
           out == Outcome(h, op, response, reply.err)
       IN  /\ returned' = [op |-> op, handle |-> i, arg |-> call[t].arg,
                           calls |-> Invoke(h[op].path, request, reply),
                           reply |-> reply, result |-> out.result, err |-> out.err]
           /\ helpers' = IF ref.shared
                         THEN [helpers EXCEPT ![i][op].response = response]
                         ELSE helpers
    /\ call' = [call EXCEPT ![t] = NoInvocation]
    /\ pc' = [pc EXCEPT ![t] = "idle"]
    /\ UNCHANGED <<services, scanOnce, cursor, failure, scans, last, run>>

\* Instance of the ObjectHelper i that Lookup returned: it returns a clone of the
\* object template, which the caller keeps.
TakeInstance(t, i) ==
    /\ CanStart(t)
    /\ LET h == helpers[i]
           ref == Instance(h)
       IN  /\ returned' = [NoReturn EXCEPT !.op = "instance", !.handle = i,
                                           !.result = Deref(ref, h.template)]
           /\ call' = [call EXCEPT ![t] = [op |-> "instance", handle |-> i, arg |-> "",
                                           request |-> ref]]
    /\ pc' = [pc EXCEPT ![t] = "holding"]
    /\ UNCHANGED <<services, helpers, scanOnce, cursor, failure, scans, last, run>>

\* The caller writes an id into the instance it keeps.
MutateInstance(t, id) ==
    /\ pc[t] = "holding"
    /\ returned = NoReturn
    /\ call[t].arg = ""
    /\ LET i == call[t].handle
           h == helpers[i]
           ref == call[t].request
           object == SetField(Deref(ref, h.template), ObjectIdField, id)
       IN  /\ call' = [call EXCEPT ![t].arg = id, ![t].request.msg = object]
           /\ helpers' = IF ref.shared
                         THEN [helpers EXCEPT ![i].template = object]
                         ELSE helpers
    /\ UNCHANGED <<services, scanOnce, cursor, pc, failure, scans, last, returned, run>>

\* The caller lets go of the instance it keeps.
DropInstance(t) ==
    /\ pc[t] = "holding"
    /\ returned = NoReturn
    /\ call' = [call EXCEPT ![t] = NoInvocation]
    /\ pc' = [pc EXCEPT ![t] = "idle"]
    /\ UNCHANGED <<services, helpers, scanOnce, cursor, failure, scans, last, returned, run>>

\* The caller of the operation that returned takes its result, before any other
\* step of an operation.
Forget ==
    /\ returned # NoReturn
    /\ returned' = NoReturn
    /\ UNCHANGED <<services, helpers, scanOnce, cursor, pc, failure, scans, last, call, run>>

\* The steps of the callers, with Lookup called on the given names.
NextOn(names) ==
    \/ Discard
    \/ \E t \in Callers :
          \/ ScanIfNeededRun(t)
          \/ ScanIfNeededWait(t)
          \/ ScanIfNeededResume(t)
          \/ ScanService(t)
          \/ ScanReturn(t)
          \/ DoSingulars(t)
          \/ DoPlurals(t)
          \/ \E objectType \in names : DoLookup(t, objectType)

Next == NextOn(LookupNames)

NextScan == NextOn(ScanLookupNames)

\* The steps of the callers of the read operations and of the operations of the
\* ObjectHelpers that Lookup gave them.
NextCalls ==
    \/ NextOn(CallLookupNames)
    \/ Forget
    \/ \E t \in Callers :
          \/ /\ CanStart(t)
             /\ \E i \in Handles(helpers) :
                   \/ \E op \in Operations :
                         \E arg \in Arguments(helpers[i], op) : BeginCall(t, i, op, arg)
                   \/ TakeInstance(t, i)
          \/ /\ pc[t] = "calling"
             /\ \E reply \in Replies(helpers[call[t].handle], call[t].op) :
                   CompleteCall(t, reply)
          \/ \E id \in Ids : MutateInstance(t, id)
          \/ DropInstance(t)

\* A Helper over a registry of conventional and unconventional services.
Spec == Init /\ [][Next]_vars

\* A Helper over a registry with one service in any variant.
SpecScan == InitScan /\ [][NextScan]_vars

\* A Helper over conventional services, and callers of its ObjectHelpers.
SpecCalls == InitCalls /\ [][NextCalls]_vars

-----------------------------------------------------------------------------
(* Properties *)

\* The result of a read operation on a list of helpers.
ResultOn(hs, op, arg) ==
    CASE op = "Singulars" -> [names |-> Singulars(hs), index |-> 0]
      [] op = "Plurals" -> [names |-> Plurals(hs), index |-> 0]
      [] OTHER -> [names |-> <<>>, index |-> Lookup(hs, arg)]

\* Service i of the enumeration has been handled by scanService, to its return
\* or to its panic.
Visited(i) ==
    /\ scans > 0
    /\ \/ i < cursor
       \/ i = cursor /\ failure # "none"

\* The helper was assembled from methods of the given service.
HelperOf(h, serviceDesc) ==
    \E m \in serviceDesc.methods :
        makeMethodPath(m) \in {h.get.path, h.list.path, h.update.path, h.delete.path}

C2_AbortNeverPartial ==
    failure = "message not found" =>
        /\ \E t \in Callers : pc[t] = "panicked"
        /\ scans = 1
        /\ last.op \in {"Singulars", "Plurals"} => last.names = <<>>
        /\ last.op = "Lookup" => last.index = 0

\* The method of the given name, which the service declares.
MethodOf(serviceDesc, name) == CHOOSE m \in serviceDesc.methods : m.name = name

\* The message has a singular (not repeated) field of the given name and kind.
HasSingular(messageDesc, name, kind) ==
    \E f \in messageDesc.fields :
        f.name = name /\ f.cardinality # "repeated" /\ f.kind = kind

\* The service declares methods named exactly Get, List, Update and Delete.
HasFourMethods(serviceDesc) == MethodNames \subseteq {m.name : m \in serviceDesc.methods}

\* C3 (as claimed): a service with the four methods and a valid Get request id
\* whose Get response has no singular message field named object is skipped:
\* the scan raises nothing on it and appends no helper for it.
C3_NoObjectFieldSkipped ==
    \A i \in 1..Len(services) :
        LET serviceDesc == ServiceDesc(services[i])
        IN  (/\ Visited(i)
             /\ HasFourMethods(serviceDesc)
             /\ HasSingular(MethodOf(serviceDesc, getMethodName).input, idFieldName, "string")
             /\ ~HasSingular(MethodOf(serviceDesc, getMethodName).output, objectFieldName,
                             "message"))
            => /\ i < cursor
               /\ failure = "none"
               /\ \A k \in 1..Len(helpers) : ~HelperOf(helpers[k], serviceDesc)

\* The message has a singular or repeated field of the given name whose type is
\* the given message.
HasMessageField(messageDesc, name, repeated, object) ==
    \E f \in messageDesc.fields :
        /\ f.name = name
        /\ f.kind = "message"
        /\ (f.cardinality = "repeated") = repeated
        /\ f.message = object

\* The conditions of the claim on a service, for the object type given.
Qualifies(serviceDesc, object) ==
    /\ HasFourMethods(serviceDesc)
    /\ HasSingular(MethodOf(serviceDesc, getMethodName).input, idFieldName, "string")
    /\ HasMessageField(MethodOf(serviceDesc, getMethodName).output, objectFieldName,
                       FALSE, object)
    /\ HasSingular(MethodOf(serviceDesc, listMethodName).input, filterFieldName, "string")
    /\ HasMessageField(MethodOf(serviceDesc, listMethodName).output, itemsFieldName,
                       TRUE, object)
    /\ HasMessageField(MethodOf(serviceDesc, updateMethodName).input, objectFieldName,
                       FALSE, object)
    /\ HasMessageField(MethodOf(serviceDesc, updateMethodName).output, objectFieldName,
                       FALSE, object)
    /\ HasSingular(MethodOf(serviceDesc, deleteMethodName).input, idFieldName, "string")

\* The message types an object field can have in this model.
ObjectTypes == {ObjectDesc(k) : k \in Kinds} \cup {EventDesc}

\* C4 (as claimed): after a discovery that completed, the registry holds a
\* resource for a message type if and only if some scanned service declares
\* Get, List, Update and Delete and passes every field-shape check with that
\* message as its object type.
C4_ResourceIffQualifies ==
    (scanOnce = "done" /\ failure = "none") =>
        \A object \in ObjectTypes :
            (\E k \in 1..Len(helpers) : Descriptor(helpers[k]) = object)
            <=> (\E i \in 1..Len(services) :
                    Visited(i) /\ Qualifies(ServiceDesc(services[i]), object))

\* C5: a scanned service that lacks one of the methods named exactly Get, List,
\* Update and Delete is passed over: scanService returns normally on it and no
\* helper of the registry comes from it, whatever its other methods look like.
C5_MissingMethodSkipped ==
    \A i \in 1..Len(services) :
        LET serviceDesc == ServiceDesc(services[i])
        IN  (Visited(i) /\ ~HasFourMethods(serviceDesc))
            => /\ i < cursor
               /\ \A k \in 1..Len(helpers) : ~HelperOf(helpers[k], serviceDesc)

\* C5 witness: the scan is over, it visited a service that spells one of the
\* four methods in lower case, and it discovered a resource from another one.
C5_Witness ==
    /\ scanOnce = "done"
    /\ Len(helpers) >= 1
    /\ \E i \in 1..Len(services) : Visited(i) /\ services[i].variant.how = "lowercase"

\* C6: in every resource of the registry the Get response object, the List
\* response items, and the Update request and response object all have the
\* message type that Descriptor reports and Instance instantiates.
C6_OneObjectType ==
    \A k \in 1..Len(helpers) :
        LET h == helpers[k]
        IN  /\ h.get.object.message = Descriptor(h)
            /\ h.list.items.message = Descriptor(h)
            /\ h.update.in.message = Descriptor(h)
            /\ h.update.out.message = Descriptor(h)
            /\ Deref(Instance(h), h.template) = Blank(Descriptor(h).fullName)

\* C6 witness: the scan is over, it visited a service with a field of another
\* message type, and the registry holds a resource.
C6_Witness ==
    /\ scanOnce = "done"
    /\ Len(helpers) >= 1
    /\ \E i \in 1..Len(services) : Visited(i) /\ services[i].variant.how = "type"

\* The singular and the plural form of a resource.
SingularOf(h) == ToLower(h.descriptor.name)
PluralOf(h) == Plural(SingularOf(h))

\* The name equals the singular or the plural of the resource, ignoring case.
NameMatches(h, name) == ToLower(name) \in {SingularOf(h), PluralOf(h)}

\* C7 (as claimed): Lookup of any case variant of the singular or the plural of a
\* discovered resource returns the same resource as Lookup of its singular and
\* as Lookup of its plural.
C7_AllFormsSameResource ==
    last.op = "Lookup" =>
        \A i \in 1..Len(helpers) :
            NameMatches(helpers[i], last.arg) =>
                /\ last.index # 0
                /\ last.index = Lookup(helpers, SingularOf(helpers[i]))
                /\ last.index = Lookup(helpers, PluralOf(helpers[i]))

\* C7 (amended): Lookup of any case variant of the singular or the plural of a
\* discovered resource returns a resource, never nil, whose singular or plural
\* is that name ignoring case: the resource itself unless an earlier one of the
\* registry has that singular or plural.
C7_CaseInsensitiveBothForms ==
    last.op = "Lookup" =>
        \A i \in 1..Len(helpers) :
            NameMatches(helpers[i], last.arg) =>
                /\ last.index \in 1..i
                /\ NameMatches(helpers[last.index], last.arg)
                /\ (\A j \in 1..(i - 1) : ~NameMatches(helpers[j], last.arg))
                      => last.index = i

\* C7 witness: Lookup of a name that is not in lower case and is the plural,
\* not the singular, of a resource has returned that resource.
C7_Witness ==
    /\ last.op = "Lookup"
    /\ last.index # 0
    /\ last.arg # ToLower(last.arg)
    /\ ToLower(last.arg) = PluralOf(helpers[last.index])
    /\ ToLower(last.arg) # SingularOf(helpers[last.index])

\* C8: Lookup returns the first resource, in the order of the registry, whose
\* singular or plural equals the name ignoring case, and nil exactly when no
\* resource matches; after a miss the registry is the one the scan produced.
C8_FirstMatchOrNil ==
    last.op = "Lookup" =>
        LET matches == {i \in 1..Len(helpers) : NameMatches(helpers[i], last.arg)}
        IN  /\ matches = {} => last.index = 0 /\ helpers = scan(services)
            /\ matches # {} => last.index \in matches /\ \A j \in matches : last.index <= j

\* C8 witness: two resources match the name and Lookup has returned the first.
C8_Witness ==
    /\ last.op = "Lookup"
    /\ last.index = 1
    /\ Len(helpers) >= 2
    /\ NameMatches(helpers[2], last.arg)

\* C8 witness of the miss: Lookup has returned nil on a registry with resources.
C8_WitnessMiss == last.op = "Lookup" /\ last.index = 0 /\ Len(helpers) >= 1

\* The list is in increasing order, equal entries allowed.
IsSorted(list) == \A i \in 1..(Len(list) - 1) : ~StringLess(list[i + 1], list[i])

\* Number of entries of the list equal to w.
Count(list, w) == Cardinality({i \in 1..Len(list) : list[i] = w})

\* The two lists have the same entries, each as many times.
SameEntries(a, b) ==
    /\ Len(a) = Len(b)
    /\ \A i \in 1..Len(a) : Count(a, a[i]) = Count(b, a[i])

C10_PluralsPositional ==
    last.op = "Plurals" =>
        /\ Len(last.names) = Len(Singulars(helpers))
        /\ IsSorted(last.names)
        /\ \A i \in 1..Len(last.names) : last.names[i] = Plural(Singulars(helpers)[i])

\* C10 (amended): Plurals has the length of Singulars, is sorted on the plurals
\* themselves, and its entries are the plurals of the entries of Singulars,
\* each as many times; the order of the two lists can differ.
C10_PluralsOfSingularsSorted ==
    last.op = "Plurals" =>
        /\ IsSorted(last.names)
        /\ SameEntries(last.names,
                       [i \in 1..Len(helpers) |-> Plural(Singulars(helpers)[i])])

\* C10 witness: Plurals has returned a list whose first entry is not the plural
\* of the first entry of Singulars.
C10_Witness ==
    /\ last.op = "Plurals"
    /\ Len(last.names) >= 2
    /\ last.names[1] # Plural(Singulars(helpers)[1])

-----------------------------------------------------------------------------
(* The operations of an ObjectHelper: claims *)

\* The service of the registry whose object type is the resource of the helper.
ServiceOfHandle(h) ==
    CHOOSE svc \in {services[i] : i \in 1..Len(services)} :
        ObjectDesc(svc.kind) = h.descriptor

\* The wire path of a method of the resource: "/" service "/" method.
MethodPath(h, method) == "/" \o ServiceName(ServiceOfHandle(h).kind) \o "/" \o method

\* A blank request of a method of the resource with the given fields populated.
RequestWith(h, method, fields) ==
    [type |-> MessageName(ServiceOfHandle(h).kind, method \o ".request"), set |-> fields]

\* The values a message carries in the field of the given name: none or one.
Carried(message, name) == {p[2] : p \in {q \in message.set : q[1] = name}}

\* An operation has returned after a remote call that succeeded, or failed.
Succeeded(op) == returned.op = op /\ returned.reply.err = NoError
Failed(op) == returned.op = op /\ returned.reply.err # NoError

\* C11: Get(ctx, id) makes its remote call on the Get method path of the
\* resource with a request whose id field is the given id and whose other
\* fields are blank, and when the call succeeds it returns without error
\* exactly the object that the response carries in its object field.
C11_GetSendsIdReturnsObject ==
    returned.op = "get" =>
        LET h == helpers[returned.handle]
        IN  /\ Len(returned.calls) >= 1
            /\ returned.calls[1].path = MethodPath(h, "Get")
            /\ returned.calls[1].request = RequestWith(h, "Get", {<<"id", returned.arg>>})
            /\ Succeeded("get") =>
                  /\ returned.err = NoError
                  /\ \A o \in Carried(returned.reply.response, "object") :
                        returned.result = o

\* C11 witness: Get on the second resource of the registry has succeeded and
\* returned the object of the response, whose id is not the id asked for.
C11_Witness ==
    /\ Succeeded("get")
    /\ returned.handle = 2
    /\ returned.result \in Carried(returned.reply.response, "object")
    /\ <<"id", returned.arg>> \notin returned.result.set

\* C12: List(ctx, options) sends a request whose filter field is options.Filter
\* when that is not empty and is not populated when it is empty, and when the
\* call succeeds it returns without error the items of the response: as many,
\* the same, in the order of the server.
C12_ListSendsFilterReturnsItems ==
    returned.op = "list" =>
        LET h == helpers[returned.handle]
        IN  /\ Len(returned.calls) >= 1
            /\ returned.calls[1].request =
                  RequestWith(h, "List",
                              IF returned.arg.Filter # ""
                              THEN {<<"filter", returned.arg.Filter>>}
                              ELSE {})
            /\ Succeeded("list") =>
                  /\ returned.err = NoError
                  /\ \A items \in Carried(returned.reply.response, "items") :
                        /\ Len(returned.result) = Len(items)
                        /\ \A k \in 1..Len(items) : returned.result[k] = items[k]

\* C12 witness: List with the filter "x" has succeeded and returned two items,
\* the one with id 456 first.
C12_Witness ==
    /\ Succeeded("list")
    /\ returned.arg.Filter = "x"
    /\ Len(returned.result) = 2
    /\ <<"id", "456">> \in returned.result[1].set

\* C13: Update(ctx, obj) makes its remote call on the Update method path of the
\* resource with a request whose object field is obj, and when the call
\* succeeds it returns without error the object of the response as the server
\* sent it.
C13_UpdateSendsObjectReturnsResponse ==
    returned.op = "update" =>
        LET h == helpers[returned.handle]
        IN  /\ Len(returned.calls) >= 1
            /\ returned.calls[1].path = MethodPath(h, "Update")
            /\ returned.calls[1].request =
                  RequestWith(h, "Update", {<<"object", returned.arg>>})
            /\ Succeeded("update") =>
                  /\ returned.err = NoError
                  /\ \A o \in Carried(returned.reply.response, "object") :
                        returned.result = o

\* C13 witness: Update has succeeded and returned the object of the response,
\* which is not the object that was sent.
C13_Witness ==
    /\ Succeeded("update")
    /\ returned.result \in Carried(returned.reply.response, "object")
    /\ returned.result # returned.arg

\* C14: when the remote call of Get, List or Update fails the operation returns
\* an error that is not nil: Get and List return the error of the transport
\* itself, Update returns an error whose text is "failed to update object: "
\* followed by the text of the transport's error and that unwraps to it.
C14_RemoteFailureIsReturned ==
    /\ Failed("get") \/ Failed("list") => returned.err = returned.reply.err
    /\ Failed("update") =>
          /\ returned.err # NoError
          /\ returned.err.msg = "failed to update object: " \o returned.reply.err.msg
          /\ TransportError(returned.err.unwrap) = returned.reply.err

\* C14 witness: Update has returned after a remote call that failed.
C14_Witness == Failed("update") /\ returned.reply.err = TransportError("unavailable")

\* C15: an invocation of Get, List or Update that has returned has made exactly
\* one remote call, whether the call succeeded or failed.
C15_OneRemoteCall ==
    returned.op \in {"get", "list", "update"} => Len(returned.calls) = 1

\* C15 witness: List has returned after a remote call that failed.
C15_Witness == Failed("list") /\ Len(returned.calls) = 1

C17_CreateRecordedWhenPresent ==
    \A i \in 1..Len(services) :
        LET serviceDesc == ServiceDesc(services[i])
            without == ServiceDesc([services[i] EXCEPT !.variant = NoVariant])
        IN  (i < cursor /\ services[i].variant.on = "Create") =>
                /\ (\E k \in 1..Len(helpers) : HelperOf(helpers[k], serviceDesc))
                   <=> (Len(scanService(<<>>, without, {}).helpers) = 1)
                /\ \A k \in 1..Len(helpers) :
                      HelperOf(helpers[k], serviceDesc) =>
                          /\ "create" \in DOMAIN helpers[k]
                          /\ helpers[k].create.path = "/" \o serviceDesc.fullName \o "/Create"
                          /\ helpers[k].create.request
                                = Blank(MessageName(services[i].kind, "Create.request"))
                          /\ helpers[k].create.response
                                = Blank(MessageName(services[i].kind, "Create.response"))

\* The templates of a resource are blank.
TemplatesBlank(h) ==
    /\ h.template = Blank(h.descriptor.fullName)
    /\ \A op \in Operations : h[op].request.set = {} /\ h[op].response.set = {}

\* The instance that a caller keeps, as it is now.
Kept(t) == Deref(call[t].request, helpers[call[t].handle].template)

\* C18: every call of Instance returns a message equal to a blank object of the
\* object type of the resource, whatever instances were returned and written
\* before; writing an instance changes neither the object template nor an
\* instance that another call returned: an instance that is kept holds what
\* its own caller wrote into it and nothing else.
C18_InstanceFreshAndIndependent ==
    /\ returned.op = "instance" =>
          returned.result = Blank(helpers[returned.handle].descriptor.fullName)
    /\ \A k \in 1..Len(helpers) :
          helpers[k].template = Blank(helpers[k].descriptor.fullName)
    /\ \A t \in Callers :
          pc[t] = "holding" =>
              Kept(t).set = IF call[t].arg = "" THEN {} ELSE {<<"id", call[t].arg>>}

\* C18 witness: Instance has returned while another caller keeps an instance of
\* the same resource into which it wrote an id, and the caller of this Instance
\* keeps its own, unwritten.
C18_Witness ==
    /\ returned.op = "instance"
    /\ \E t, u \in Callers :
          /\ pc[t] = "holding" /\ call[t].handle = returned.handle /\ call[t].arg = "123"
          /\ pc[u] = "holding" /\ call[u].handle = returned.handle /\ call[u].arg = ""

\* What an operation returns when it returns only what the reply of its own
\* remote call carries.
OwnResult(op, h) ==
    LET reply == returned.reply
    IN  CASE op = "delete" -> {Nil}
          [] op = "list" ->
                IF reply.err # NoError THEN {Nil}
                ELSE Carried(reply.response, "items") \cup {<<>>}
          [] op = "get" /\ reply.err # NoError -> {Nil}
          [] OTHER ->
                IF reply.err # NoError THEN {Blank(h.descriptor.fullName)}
                ELSE Carried(reply.response, "object") \cup {Blank(h.descriptor.fullName)}

\* C19: in every state reached by interleaved Get, List, Update, Delete and
\* Instance calls, succeeded or failed, every request, response and object
\* template of every resource is blank; the request of an operation in flight
\* and the request that an operation sent carry the argument of that call and
\* nothing else, so a List without filter sends no filter whatever other calls
\* set; and what an operation returns comes from the reply to its own call.
C19_TemplatesStayBlank ==
    /\ \A k \in 1..Len(helpers) : TemplatesBlank(helpers[k])
    /\ \A t \in Callers :
          pc[t] = "calling" =>
              LET h == helpers[call[t].handle]
              IN  Deref(call[t].request, h[call[t].op].request)
                    = ApplyWrites(Blank(h[call[t].op].request.type),
                                  Writes(h, call[t].op, call[t].arg))
    /\ returned.op \in Operations =>
          LET h == helpers[returned.handle]
          IN  /\ returned.calls[1].request.set
                    = {<<w[1].name, w[2]>> : w \in Writes(h, returned.op, returned.arg)}
              /\ returned.result \in OwnResult(returned.op, h)

\* C19 witness: a List without filter has returned, having sent a request with
\* no field populated, while a List with the filter "x" on the same resource
\* is in flight.
C19_Witness ==
    /\ returned.op = "list"
    /\ returned.arg.Filter = ""
    /\ returned.calls[1].request.set = {}
    /\ \E t \in Callers :
          /\ pc[t] = "calling"
          /\ call[t].op = "list"
          /\ call[t].handle = returned.handle
          /\ call[t].arg.Filter = "x"

\* C20: the Helper that Build returns has scanned nothing; the scan is started
\* by a call of Singulars, Plurals or Lookup, once; and once it is over the
\* registry is the list that this scan produced, in its order, with every
\* resource as the scan assembled it, through every later Singulars, Plurals,
\* Lookup, Instance, Get, List, Update and Delete.
C20_LazyScanFinalRegistry ==
    /\ scans <= 1
    /\ scanOnce = "idle" => scans = 0 /\ helpers = <<>>
    /\ scanOnce # "idle" => scans = 1
    /\ scanOnce = "done" => helpers = scan(services)

\* C20 witness: after the scan, a Lookup and operations of the ObjectHelpers,
\* an Update has returned while another caller keeps a written instance, and
\* the registry holds two resources.
C20_Witness ==
    /\ scanOnce = "done"
    /\ scans = 1
    /\ Len(helpers) = 2
    /\ returned.op = "update"
    /\ \E t \in Callers : pc[t] = "holding" /\ call[t].arg # ""

\* The orders in which the services of a registry can be enumerated.
Orders(svcs) ==
    {p \in [1..Len(svcs) -> 1..Len(svcs)] :
        \A i, j \in 1..Len(svcs) : p[i] = p[j] => i = j}

\* The registry enumerated in the order p.
Reorder(svcs, p) == [i \in 1..Len(svcs) |-> svcs[p[i]]]

\* The set of resources in a list of helpers.
Resources(hs) == {hs[k] : k \in 1..Len(hs)}

\* C21: the outcome of discovery does not depend on the order in which the
\* services are enumerated: once the scan is over, a scan of the same services
\* in any other order gives the same set of resources and the same lists from
\* Singulars and Plurals.
C21_OrderIndependent ==
    scanOnce = "done" =>
        \A p \in Orders(services) :
            LET other == scan(Reorder(services, p))
            IN  /\ Resources(other) = Resources(helpers)
                /\ Singulars(other) = Singulars(helpers)
                /\ Plurals(other) = Plurals(helpers)

\* The paths recorded for the four methods of a resource.
RecordedPaths(h) == {h.get.path, h.list.path, h.update.path, h.delete.path}

\* C22: for every discovered resource, the path recorded for each of Get, List,
\* Update and Delete is "/" + full name of the service the resource was
\* discovered from + "/" + name of the method, and the four paths of one
\* resource are pairwise distinct.
C22_PathsFollowConvention ==
    \A k \in 1..Len(helpers) :
        LET h == helpers[k]
        IN  /\ \E i \in 1..Len(services) :
                  LET prefix == "/" \o ServiceName(services[i].kind) \o "/"
                  IN  /\ Visited(i)
                      /\ h.descriptor = ObjectDesc(services[i].kind)
                      /\ h.get.path = prefix \o getMethodName
                      /\ h.list.path = prefix \o listMethodName
                      /\ h.update.path = prefix \o updateMethodName
                      /\ h.delete.path = prefix \o deleteMethodName
            /\ Cardinality(RecordedPaths(h)) = 4

\* C22 witness: the scan is over and has recorded two resources, discovered
\* from two services, whose paths are all different.
C22_Witness ==
    /\ scanOnce = "done"
    /\ Len(helpers) = 2
    /\ helpers[1].get.path = "/fulfillment.v1.Clusters/Get"
    /\ helpers[2].delete.path = "/fulfillment.v1.HostClasses/Delete"
    /\ Cardinality(RecordedPaths(helpers[1]) \cup RecordedPaths(helpers[2])) = 8

\* The slots of the fields that the scan requires to be singular.
SingularFieldSlots == FieldSlots \ {"List.response.items"}

\* The scan has recorded a resource for service i of the enumeration.
Discovered(i) ==
    \E k \in 1..Len(helpers) : helpers[k].descriptor = ObjectDesc(services[i].kind)

\* C24: the checks of the singular fields treat every non-repeated cardinality
\* alike: a service that departs from the conventional shape only in the
\* cardinality of an id, filter or object field is recorded as a resource when
\* that cardinality is optional or required and skipped only when it is
\* repeated, whichever of the fields it is.
C24_SingularChecksAgree ==
    \A i \in 1..Len(services) :
        LET v == services[i].variant
        IN  (Visited(i) /\ v.how = "cardinality" /\ v.on \in SingularFieldSlots)
                => (Discovered(i) <=> v.to # "repeated")

\* C25: when the remote call of Get, List or Update fails, the operation
\* returns no result alongside the error: the object or the list returned is
\* nil, never a blank message built from the response that was not populated.
C25_NoResultOnFailure ==
    (Failed("get") \/ Failed("list") \/ Failed("update")) => returned.result = Nil

-----------------------------------------------------------------------------
(* The builder of the Helper *)

\* errors.New
New(text) == [msg |-> text, unwrap |-> ""]

\* What SetLogger and SetConnection can be given: nil or a value.
Loggers == {Nil, [handler |-> "text"]}
Connections == {Nil, [target |-> "localhost"]}

\* Build has not been called on the builder as it is.
NoBuild == [result |-> Nil, err |-> NoError, called |-> FALSE]

\* NewHelper
NewHelper == [kind |-> "builder", logger |-> Nil, connection |-> Nil, built |-> NoBuild]

\* A Build that checks the connection before the logger.
BuildConnectionFirst(b) ==
    IF b.connection = Nil
    THEN [result |-> Nil, err |-> New("gRPC connection is mandatory"), called |-> TRUE]
    ELSE IF b.logger = Nil
    THEN [result |-> Nil, err |-> New("logger is mandatory"), called |-> TRUE]
    ELSE [result |-> [logger |-> b.logger, connection |-> b.connection,
                      scanOnce |-> "idle", helpers |-> <<>>],
          err |-> NoError, called |-> TRUE]

\* HelperBuilder.Build
Build(b) ==
    IF b.logger = Nil
    THEN [result |-> Nil, err |-> New("logger is mandatory"), called |-> TRUE]
    ELSE IF b.connection = Nil
    THEN [result |-> Nil, err |-> New("gRPC connection is mandatory"), called |-> TRUE]
    ELSE [result |-> [logger |-> b.logger, connection |-> b.connection,
                      scanOnce |-> "idle", helpers |-> <<>>],
          err |-> NoError, called |-> TRUE]

\* The Helper is not touched.
UnchangedHelper ==
    UNCHANGED <<services, helpers, scanOnce, cursor, pc, failure, scans, last, call, returned>>

\* HelperBuilder.SetLogger; what an earlier Build returned is dropped.
SetLogger(value) ==
    /\ run.built.result = Nil
    /\ run' = [run EXCEPT !.logger = value, !.built = NoBuild]
    /\ UnchangedHelper

\* HelperBuilder.SetConnection; what an earlier Build returned is dropped.
SetConnection(value) ==
    /\ run.built.result = Nil
    /\ run' = [run EXCEPT !.connection = value, !.built = NoBuild]
    /\ UnchangedHelper

\* A call of HelperBuilder.Build.
DoBuild ==
    /\ ~run.built.called
    /\ run' = [run EXCEPT !.built = Build(run)]
    /\ UnchangedHelper

\* The read operations on the Helper that Build returned.
UseHelper ==
    /\ run.built.result # Nil
    /\ NextOn(ScanLookupNames)

InitBuild == services \in Schemas(CallPool) /\ InitHelper /\ run = NewHelper

NextBuild ==
    \/ \E value \in Loggers : SetLogger(value)
    \/ \E value \in Connections : SetConnection(value)
    \/ DoBuild
    \/ UseHelper

\* A builder of the Helper, and the read operations on the Helper it builds.
SpecBuild == InitBuild /\ [][NextBuild]_vars

\* C23: Build returns a Helper that is not nil, and no error, exactly when both
\* a logger and a connection were set; without a logger it returns a nil Helper
\* and the error "logger is mandatory", also when the connection is missing
\* too; with a logger and without a connection it returns a nil Helper and the
\* error "gRPC connection is mandatory".
C23_BuildChecksLoggerThenConnection ==
    run.built.called =>
        /\ (run.built.result # Nil /\ run.built.err = NoError)
              <=> (run.logger # Nil /\ run.connection # Nil)
        /\ run.logger = Nil =>
              run.built.result = Nil /\ run.built.err = New("logger is mandatory")
        /\ (run.logger # Nil /\ run.connection = Nil) =>
              run.built.result = Nil /\ run.built.err = New("gRPC connection is mandatory")
        /\ run.built.result = Nil => helpers = <<>> /\ scanOnce = "idle"

\* C23 witness: Build was called on a builder with neither a logger nor a
\* connection and returned the error about the logger.
C23_Witness ==
    /\ run.built.called
    /\ run.logger = Nil
    /\ run.connection = Nil
    /\ run.built.err = New("logger is mandatory")

-----------------------------------------------------------------------------
(* The script token source *)

\* The last time that the clock of the token source shows; it starts at 1.
MaxTime == 3

\* The texts that the storage and the script can hold: nothing, a text that is
\* not a JWT, and JWTs that expired before the clock started, that expires
\* once the clock is past 2 and that carries no exp claim.
TokenTexts == {"", "opaque", "jwt.expired", "jwt.valid", "jwt.noexp"}

\* The script of the token source.
Script == "token.sh"

\* jwt.Parser.ParseUnverified into jwt.MapClaims
ParseUnverified(tokenText) ==
    CASE tokenText = "jwt.expired" -> [claims |-> [exp |-> 0], err |-> NoError]
      [] tokenText = "jwt.valid" -> [claims |-> [exp |-> 2], err |-> NoError]
      [] tokenText = "jwt.noexp" -> [claims |-> [sub |-> "user"], err |-> NoError]
      [] OTHER -> [claims |-> Nil, err |-> New("token is malformed")]

\* jwt.MapClaims.GetExpirationTime: nil, with no error, when there is no exp.
GetExpirationTime(tokenClaims) ==
    IF "exp" \in DOMAIN tokenClaims THEN [Time |-> tokenClaims.exp] ELSE Nil

\* scriptTokenSource.parseToken.  The code reads the Time of the expiration
\* time without a nil check; on a nil pointer that is a nil pointer dereference.
parseToken(tokenText) ==
    LET parsed == ParseUnverified(tokenText)
        tokenEpirationTime == GetExpirationTime(parsed.claims)
    IN  IF parsed.err # NoError THEN [result |-> Nil, err |-> parsed.err, panic |-> FALSE]
        ELSE IF tokenEpirationTime = Nil THEN [result |-> Nil, err |-> NoError, panic |-> TRUE]
        ELSE [result |-> [AccessToken |-> tokenText, Expiry |-> tokenEpirationTime.Time],
              err |-> NoError, panic |-> FALSE]

\* What the script writes: a text followed by a line break, or the line break
\* alone.
Whitespace == {" ", "\n"}
ScriptOutputs == {<<text, "\n">> : text \in TokenTexts \ {""}} \cup {<<"\n">>}

\* strings.TrimSpace on the pieces of an output.
RECURSIVE TrimLeft(_)
TrimLeft(out) ==
    IF out # <<>> /\ Head(out) \in Whitespace THEN TrimLeft(Tail(out)) ELSE out
RECURSIVE TrimRight(_)
TrimRight(out) ==
    IF out # <<>> /\ out[Len(out)] \in Whitespace
    THEN TrimRight(SubSeq(out, 1, Len(out) - 1))
    ELSE out
RECURSIVE Join(_)
Join(out) == IF out = <<>> THEN "" ELSE Head(out) \o Join(Tail(out))
TrimSpace(out) == Join(TrimRight(TrimLeft(out)))

\* How the script ends: it fails, or it exits with an output.
ScriptRuns ==
    {[out |-> <<>>, err |-> New("exit status 1")]}
    \cup [out : ScriptOutputs, err : {NoError}]

\* scriptTokenSource.generateToken, given how the script ended.
generateToken(cmd) ==
    IF cmd.err # NoError
    THEN [result |-> "",
          err |-> Errorf("failed to execute token generation script '" \o Script \o "': ",
                         cmd.err)]
    ELSE [result |-> TrimSpace(cmd.out), err |-> NoError]

\* The token source as Build returns it, over a storage, before a call of
\* Token: what time.Now() returns, where the call is, what it loaded, its
\* rawToken and parsedToken, the
\* outcomes of the script it executed, the tokens it called the save function
\* with, and what it returned.
NewScriptTokenSource(stored) ==
    [kind |-> "source", stored |-> stored, now |-> 1, pc |-> "idle", site |-> "none",
     loaded |-> "", rawToken |-> "", parsedToken |-> Nil, executions |-> <<>>,
     saves |-> <<>>, result |-> Nil, err |-> NoError]

\* Token returns.
TokenReturns(src, result, err) ==
    [src EXCEPT !.pc = "returned", !.result = result, !.err = err]

\* Token from its first parseToken to the next call of the script or of the
\* save function.
TokenParse(src, rawToken) ==
    LET parsed == parseToken(rawToken)
        held == [src EXCEPT !.rawToken = rawToken]
    IN  IF parsed.panic THEN [held EXCEPT !.pc = "panicked"]
        ELSE IF parsed.err # NoError THEN [held EXCEPT !.pc = "generate", !.site = "unparsed"]
        ELSE IF parsed.result.Expiry < src.now
             THEN [held EXCEPT !.pc = "generate", !.site = "expired",
                               !.parsedToken = parsed.result]
        ELSE [held EXCEPT !.pc = "save", !.parsedToken = parsed.result]

\* Token from one call of generateToken to the next call of the script or of
\* the save function, or to its return.
TokenGenerated(src, generated) ==
    LET held == [src EXCEPT !.rawToken = generated.result]
        parsed == parseToken(generated.result)
    IN  IF generated.err # NoError THEN TokenReturns(src, Nil, generated.err)
        ELSE CASE src.site = "empty" -> TokenParse(src, generated.result)
               [] src.site = "unparsed" ->
                     TokenReturns(held, [AccessToken |-> generated.result], NoError)
               [] OTHER ->
                     IF parsed.panic THEN [held EXCEPT !.pc = "panicked"]
                     ELSE IF parsed.err # NoError
                          THEN TokenReturns(held, [AccessToken |-> generated.result], NoError)
                     ELSE [held EXCEPT !.pc = "save", !.parsedToken = parsed.result]

\* Token is called: loadTokenFunc returns the stored token or fails.
TokenLoad(err) ==
    /\ run.pc = "idle"
    /\ run' = IF err # NoError THEN TokenReturns(run, Nil, err)
              ELSE IF run.stored = ""
                   THEN [run EXCEPT !.pc = "generate", !.site = "empty"]
              ELSE TokenParse([run EXCEPT !.loaded = run.stored], run.stored)
    /\ UnchangedHelper

\* Token calls generateToken, which executes the script.
TokenGenerate(cmd) ==
    /\ run.pc = "generate"
    /\ run' = TokenGenerated([run EXCEPT !.executions = Append(@, cmd)], generateToken(cmd))
    /\ UnchangedHelper

\* Token calls saveTokenFunc, which stores the token or fails, and returns.
TokenSave(err) ==
    /\ run.pc = "save"
    /\ LET called == [run EXCEPT !.saves = Append(@, run.rawToken)]
       IN  run' = IF err # NoError THEN TokenReturns(called, Nil, err)
                  ELSE TokenReturns([called EXCEPT !.stored = run.rawToken],
                                    run.parsedToken, NoError)
    /\ UnchangedHelper

\* The next call of Token, on the storage as the last call left it.
TokenAgain ==
    /\ run.pc \in {"returned", "panicked"}
    /\ run' = [NewScriptTokenSource(run.stored) EXCEPT !.now = run.now]
    /\ UnchangedHelper

\* Time passes between two calls of Token.
Tick ==
    /\ run.pc = "idle"
    /\ run.now < MaxTime
    /\ run' = [run EXCEPT !.now = @ + 1]
    /\ UnchangedHelper

InitToken ==
    /\ services = <<>>
    /\ InitHelper
    /\ run \in {NewScriptTokenSource(stored) : stored \in TokenTexts}

NextToken ==
    \/ \E err \in {NoError, New("permission denied")} : TokenLoad(err)
    \/ \E cmd \in ScriptRuns : TokenGenerate(cmd)
    \/ \E err \in {NoError, New("permission denied")} : TokenSave(err)
    \/ TokenAgain
    \/ Tick

\* A script token source over a storage, and its callers one after another.
SpecToken == InitToken /\ [][NextToken]_vars

\* The text is a JWT with an expiration time.
HasExpiry(tokenText) ==
    /\ ParseUnverified(tokenText).err = NoError
    /\ GetExpirationTime(ParseUnverified(tokenText).claims) # Nil

\* C26: the script token source never saves a token whose expiry it could not
\* read: the save function is called only with a token that parses as a JWT
\* with an expiration time; and when the token that the call ends with, stored
\* or generated, is not such a JWT, the call returns it to the caller and has
\* not called the save function.
C26_SavesOnlyParsedTokens ==
    /\ \A k \in 1..Len(run.saves) : HasExpiry(run.saves[k])
    /\ (/\ run.pc \in {"returned", "panicked"}
        /\ run.err = NoError
        /\ ~HasExpiry(run.rawToken))
          => /\ run.pc = "returned"
             /\ run.result = [AccessToken |-> run.rawToken]
             /\ run.saves = <<>>

\* C27: a call of Token executes the script at most once, whatever the stored
\* token and whatever the script writes; and when the stored token is a JWT
\* that has not expired it does not execute the script at all.
C27_ScriptAtMostOnce ==
    /\ Len(run.executions) <= 1
    /\ (HasExpiry(run.loaded) /\ parseToken(run.loaded).result.Expiry >= run.now)
          => run.executions = <<>>

-----------------------------------------------------------------------------
(* The commands *)

\* The largest number of identifiers, or of input objects, on a command line.
MaxIds == 2

\* The states of the configuration file that config.Load can find.
ConfigFiles == {"absent", "denied", "unreadable", "empty", "invalid", "valid"}

\* &Config{}
EmptyConfig == [Address |-> "", Token |-> "", TokenScript |-> ""]

\* config.Load.  A file that does not exist gives an empty configuration and
\* no error; the failures are formatted with %v.
Load(file) ==
    CASE file = "absent" -> [cfg |-> EmptyConfig, err |-> NoError]
      [] file = "denied" ->
            [cfg |-> Nil,
             err |-> ErrorfOpaque("failed to check if config file 'config.json' exists: ",
                                  New("permission denied"))]
      [] file = "unreadable" ->
            [cfg |-> Nil,
             err |-> ErrorfOpaque("failed to read config file 'config.json': ",
                                  New("input/output error"))]
      [] file = "empty" -> [cfg |-> EmptyConfig, err |-> NoError]
      [] file = "invalid" ->
            [cfg |-> EmptyConfig,
             err |-> ErrorfOpaque("failed to parse config file 'config.json': ",
                                  New("unexpected end of JSON input"))]
      [] OTHER ->
            [cfg |-> [Address |-> "localhost:8000", Token |-> "", TokenScript |-> ""],
             err |-> NoError]

\* Config.Connect, given what grpc.NewClient returns for the address.
Connect(cfg, err) ==
    IF err # NoError THEN [result |-> Nil, err |-> err]
    ELSE [result |-> [target |-> cfg.Address], err |-> NoError]

\* An argument of the command line that names an object type: its text, and
\* its characters as Lookup compares them.
ObjectArguments ==
    {[text |-> "cluster", chars |-> ToLower(ClusterName)],
     [text |-> "event", chars |-> ToLower(EventName)]}

\* The full name of the Cluster message, as decodeObjects gives it to Lookup.
InputObjects ==
    {[text |-> "fulfillment.v1.Cluster",
      chars |-> <<102, 117, 108, 102, 105, 108, 108, 109, 101, 110, 116, 46, 118, 49, 46>>
                \o ClusterName]}

\* The lists of at most MaxIds elements of a set.
ListsOf(set) == UNION {[1..n -> set] : n \in 0..MaxIds}

\* The command lines: the command, args[0] (nil when there are no arguments),
\* args[1:], the --output flag, and for create the --filename flag and the
\* objects in the file.
Invocations ==
    [command : {"get"}, object : ObjectArguments \cup {Nil}, ids : ListsOf(Ids),
     format : {"table", "xml"}, fileName : {""}, objects : {<<>>}]
    \cup [command : {"delete"}, object : ObjectArguments \cup {Nil}, ids : ListsOf(Ids),
          format : {""}, fileName : {""}, objects : {<<>>}]
    \cup [command : {"edit"}, object : ObjectArguments \cup {Nil}, ids : ListsOf(Ids),
          format : {"json", "xml"}, fileName : {""}, objects : {<<>>}]
    \cup [command : {"create"}, object : {Nil}, ids : {<<>>},
          format : {""}, fileName : {"", "objects.yaml"}, objects : ListsOf(InputObjects)]

\* The steps of runnerContext.run of the get command, in the order of the code.
GetProgram ==
    <<"Load", "NilCheck", "Connect", "Build", "Engine", "NoObject", "Lookup", "Format",
      "Fetch", "Show">>

\* The steps of runnerContext.run of the delete command.
DeleteProgram ==
    <<"Load", "NilCheck", "Connect", "Build", "Engine", "NoObject", "NoId", "Lookup",
      "Delete">>

\* An edit command that sends the Update before it runs the editor.
EditProgramUpdateFirst ==
    <<"Load", "NilCheck", "Connect", "Build", "Engine", "NoObject", "Lookup", "Format",
      "NoId", "Connect", "Get", "Render", "MkdirTemp", "WriteFile", "LookPath", "Update",
      "Editor", "ReadFile", "Parse">>

\* The steps of runnerContext.run of the edit command.
EditProgram ==
    <<"Load", "NilCheck", "Connect", "Build", "Engine", "NoObject", "Lookup", "Format",
      "NoId", "Connect", "Get", "Render", "MkdirTemp", "WriteFile", "LookPath", "Editor",
      "ReadFile", "Parse", "Update">>

\* The steps of runnerContext.run of the create command.
CreateProgram ==
    <<"Load", "NilCheck", "Connect", "Build", "FileName", "Open", "Decode", "LookupObject",
      "Create">>

\* The steps of runnerContext.run of a command.
Program(command) ==
    CASE command = "get" -> GetProgram
      [] command = "delete" -> DeleteProgram
      [] command = "edit" -> EditProgram
      [] OTHER -> CreateProgram

\* The step that the command is at.
Step(r) == IF r.done THEN "none" ELSE Program(r.command)[r.pc]

\* A command as cobra starts it.
NewCommand(invocation, file) ==
    [kind |-> "command", command |-> invocation.command, file |-> file,
     object |-> invocation.object, ids |-> invocation.ids, format |-> invocation.format,
     fileName |-> invocation.fileName, objects |-> invocation.objects,
     cfg |-> Nil, conn |-> Nil, handle |-> 0, pc |-> 1, next |-> 1, events |-> <<>>,
     err |-> NoError, done |-> FALSE]

\* run returns.
Returns(r, err) == [r EXCEPT !.done = TRUE, !.err = err]

\* run goes on to its next statement, or returns nil after the last.
Advance(r) ==
    IF r.pc = Len(Program(r.command)) THEN Returns(r, NoError)
    ELSE [r EXCEPT !.pc = @ + 1, !.next = 1]

\* run has called something outside of it, which returned err.
Performed(r, op, arg, err) ==
    [r EXCEPT !.events = Append(@, [op |-> op, arg |-> arg, err |-> err])]

\* The text that the code puts before the error of a step; "" where it
\* returns the error as it is.
Wrap(r) ==
    CASE Step(r) = "Connect" -> "failed to create gRPC connection: "
      [] Step(r) = "Build" -> "failed to create reflection tool: "
      [] Step(r) = "Engine" -> "failed to create templating engine: "
      [] Step(r) = "Get" ->
            "failed to get object of type '" \o r.object.text \o "' with identifier '"
            \o r.ids[1] \o "': "
      [] Step(r) = "WriteFile" -> "failed to create temporary file: "
      [] Step(r) = "LookPath" -> "failed to find editor command: "
      [] Step(r) = "Editor" -> "failed to edit: "
      [] Step(r) = "ReadFile" -> "failed to read back temporary file: "
      [] Step(r) = "Parse" -> "failed to parse modified object: "
      [] Step(r) = "Open" -> "failed to open the file '" \o r.fileName \o "': "
      [] Step(r) = "Delete" ->
            "failed to delete " \o r.object.text \o " '" \o r.ids[r.next] \o "': "
      [] Step(r) = "Create" ->
            "failed to create object at index " \o ToString(r.next - 1) \o ": "
      [] OTHER -> ""

\* run returns the error of the step it is at, with the text of the step
\* before it.
Fails(r, err) == Returns(r, IF Wrap(r) = "" THEN err ELSE Errorf(Wrap(r), err))

\* A step that was called and returned err.
Called(r, op, arg, err) ==
    IF err # NoError THEN Fails(Performed(r, op, arg, err), err)
    ELSE Advance(Performed(r, op, arg, err))

\* A delete command that goes on to the next identifier when a Delete fails.
DeleteKeepGoing(r, err) ==
    LET sent == Performed(r, "Delete", r.ids[r.next], err)
    IN  IF r.next = Len(r.ids) THEN Returns(sent, NoError)
        ELSE [sent EXCEPT !.next = @ + 1]

\* One round of the loop of the delete command over args[1:].
DeleteNext(r, err) ==
    LET sent == Performed(r, "Delete", r.ids[r.next], err)
    IN  IF err # NoError THEN Fails(sent, err)
        ELSE IF r.next = Len(r.ids) THEN Returns(sent, NoError)
        ELSE [sent EXCEPT !.next = @ + 1]

\* runnerContext.get and runnerContext.list of the get command: one round of
\* the loop over the identifiers, or the List when there is none.
FetchNext(r, err) ==
    IF r.ids = <<>> THEN Called(r, "List", "", err)
    ELSE LET sent == Performed(r, "Get", r.ids[r.next], err)
         IN  IF err # NoError THEN Fails(sent, err)
             ELSE IF r.next = Len(r.ids) THEN Advance(sent)
             ELSE [sent EXCEPT !.next = @ + 1]

\* The Create of one input object of the create command, and back to the
\* Lookup for the next.
CreateNext(r, err) ==
    LET sent == Performed(r, "Create", r.objects[r.next].text, err)
    IN  IF err # NoError THEN Fails(sent, err)
        ELSE IF r.next = Len(r.objects) THEN Returns(sent, NoError)
        ELSE [sent EXCEPT !.pc = @ - 1, !.next = @ + 1]

\* The formats that the --output flag of a command accepts.
Formats(command) ==
    IF command = "get" THEN {"table", "json", "yaml"} ELSE {"json", "yaml"}

\* config.Load at the start of run.
CommandLoad ==
    /\ Step(run) = "Load"
    /\ LET loaded == Load(run.file)
       IN  run' = IF loaded.err # NoError THEN Returns(run, loaded.err)
                  ELSE Advance([run EXCEPT !.cfg = loaded.cfg])
    /\ UnchangedHelper

\* The statements of run that check what it has: the configuration, the
\* arguments and the flags; and the Build of the Helper.
CommandCheck ==
    /\ Step(run) \in {"NilCheck", "Build", "NoObject", "NoId", "Format", "FileName"}
    /\ run' =
          CASE Step(run) = "NilCheck" ->
                  IF run.cfg = Nil
                  THEN Returns(run, New("there is no configuration, run the 'login' command"))
                  ELSE Advance(run)
            [] Step(run) = "Build" ->
                  LET built == Build([logger |-> [handler |-> "text"],
                                      connection |-> run.conn])
                  IN  IF built.err # NoError THEN Fails(run, built.err) ELSE Advance(run)
            [] Step(run) = "NoObject" ->
                  IF run.object = Nil
                  THEN Returns(Performed(run, "Render", "no_object.txt", NoError), NoError)
                  ELSE Advance(run)
            [] Step(run) = "NoId" ->
                  IF run.ids = <<>>
                  THEN Returns(Performed(run, "Render", "no_id.txt", NoError), NoError)
                  ELSE Advance(run)
            [] Step(run) = "Format" ->
                  IF run.format \notin Formats(run.command)
                  THEN Returns(run, New("unknown output format '" \o run.format \o "'"))
                  ELSE Advance(run)
            [] OTHER ->
                  IF run.fileName = ""
                  THEN Returns(run, New("it is mandatory to specify the input file with the '--filename' or '-f' options"))
                  ELSE Advance(run)
    /\ UnchangedHelper

\* Config.Connect: grpc.NewClient returns a connection or fails.
CommandConnect(err) ==
    /\ Step(run) = "Connect"
    /\ LET connected == Connect(run.cfg, err)
       IN  run' = Called([run EXCEPT !.conn = connected.result], "Connect",
                         run.cfg.Address, connected.err)
    /\ UnchangedHelper

\* Helper.Lookup of the object type, which scans on its first call.
CommandLookup ==
    /\ Step(run) \in {"Lookup", "LookupObject"}
    /\ helpers' = IF scanOnce = "done" THEN helpers ELSE scan(services)
    /\ scanOnce' = "done"
    /\ scans' = IF scanOnce = "done" THEN scans ELSE scans + 1
    /\ cursor' = Len(services) + 1
    /\ run' =
          IF Step(run) = "Lookup"
          THEN LET found == Lookup(helpers', run.object.chars)
               IN  IF found = 0
                   THEN Returns(Performed(run, "Render", "wrong_object.txt", NoError), NoError)
                   ELSE [Advance(run) EXCEPT !.handle = found]
          ELSE IF run.next > Len(run.objects) THEN Returns(run, NoError)
          ELSE LET found == Lookup(helpers', run.objects[run.next].chars)
               IN  IF found = 0
                   THEN Returns(run, New("input object at index " \o ToString(run.next - 1)
                                         \o " is of an unknown type '"
                                         \o run.objects[run.next].text \o "'"))
                   ELSE [run EXCEPT !.pc = @ + 1, !.handle = found]
    /\ UNCHANGED <<services, pc, failure, last, call, returned>>

\* A step of run on the machine of the user: the templating engine, the
\* rendering, the temporary file, the editor, the input file.
CommandLocal(err) ==
    /\ Step(run) \in {"Engine", "Render", "MkdirTemp", "WriteFile", "LookPath", "Editor",
                      "ReadFile", "Parse", "Open", "Decode", "Show"}
    /\ run' = Called(run, Step(run), "", err)
    /\ UnchangedHelper

\* A call of run to an operation of the ObjectHelper.
CommandRemote(err) ==
    /\ Step(run) \in {"Fetch", "Get", "Update", "Delete", "Create"}
    /\ run' = CASE Step(run) = "Fetch" -> FetchNext(run, err)
                [] Step(run) = "Delete" -> DeleteNext(run, err)
                [] Step(run) = "Create" -> CreateNext(run, err)
                [] Step(run) = "Get" -> Called(run, "Get", run.ids[1], err)
                [] OTHER -> Called(run, "Update", run.ids[1], err)
    /\ UnchangedHelper

InitCommand ==
    /\ services = <<[kind |-> "Cluster", variant |-> NoVariant]>>
    /\ InitHelper
    /\ run \in {NewCommand(invocation, file) :
                  invocation \in {i \in Invocations : i.object = Nil => i.ids = <<>>},
                  file \in ConfigFiles}

NextCommand ==
    \/ CommandLoad
    \/ CommandCheck
    \/ \E err \in {NoError, New("connection refused")} : CommandConnect(err)
    \/ CommandLookup
    \/ \E err \in {NoError, New("exit status 1")} : CommandLocal(err)
    \/ \E err \in {NoError, TransportError("unavailable")} : CommandRemote(err)

\* One run of the get, delete, edit or create command.
SpecCommand == InitCommand /\ [][NextCommand]_vars

\* The positions in the events of the run that are calls of the given step.
EventsOf(op) == {k \in 1..Len(run.events) : run.events[k].op = op}

\* The steps that the edit command takes between the Get and the Update.
EditSteps == <<"Get", "Render", "WriteFile", "Editor", "ReadFile", "Parse">>

\* C28: in the edit command, Update is sent at most once in a run and only
\* after, in this order, the object was fetched with Get, rendered, written to
\* the temporary file, the editor exited successfully and the edited file was
\* read back and parsed; and when one of these steps fails the command returns
\* its error and sends no Update.
C28_UpdateOnceAfterEdit ==
    run.command = "edit" =>
        /\ Cardinality(EventsOf("Update")) <= 1
        /\ \A u \in EventsOf("Update") :
              \E at \in [1..Len(EditSteps) -> 1..u] :
                  /\ \A s \in 1..Len(EditSteps) :
                        /\ run.events[at[s]].op = EditSteps[s]
                        /\ run.events[at[s]].err = NoError
                  /\ \A s \in 1..(Len(EditSteps) - 1) : at[s] < at[s + 1]
                  /\ at[Len(EditSteps)] < u
        /\ \A k \in 1..Len(run.events) :
              (/\ run.events[k].err # NoError
               /\ \E s \in 1..Len(EditSteps) : run.events[k].op = EditSteps[s])
                  => /\ run.done
                     /\ run.err # NoError
                     /\ run.err = run.events[k].err
                        \/ run.err.unwrap = run.events[k].err.msg
                     /\ EventsOf("Update") = {}

\* C28 witness: an edit of the cluster 456 has returned without error after
\* its Update, sent last.
C28_Witness ==
    /\ run.command = "edit"
    /\ run.done
    /\ run.err = NoError
    /\ EventsOf("Update") = {Len(run.events)}
    /\ run.ids[1] = "456"

\* The Delete calls of the run, in the order they were made.
Deletes == SelectSeq(run.events, LAMBDA ev : ev.op = "Delete")

\* The calls of the run to the server.
RemoteCalls ==
    SelectSeq(run.events, LAMBDA ev : ev.op \in {"Get", "List", "Update", "Delete", "Create"})

\* C29: the delete command deletes the identifiers in the order of the command
\* line, with one Delete call for each, and stops at the first call that
\* fails: it returns an error that names that identifier, sends no Delete for a
\* later identifier and makes no call that undoes the deletions already done.
C29_DeleteInOrderStopAtFailure ==
    run.command = "delete" =>
        /\ Len(Deletes) <= Len(run.ids)
        /\ \A k \in 1..Len(Deletes) : Deletes[k].arg = run.ids[k]
        /\ RemoteCalls = Deletes
        /\ \A k \in 1..Len(Deletes) :
              Deletes[k].err # NoError =>
                  /\ k = Len(Deletes)
                  /\ run.done
                  /\ run.err = Errorf("failed to delete " \o run.object.text \o " '"
                                      \o run.ids[k] \o "': ", Deletes[k].err)
        /\ (run.done /\ run.err = NoError /\ Deletes # <<>>) => Len(Deletes) = Len(run.ids)
        /\ (Step(run) = "Delete") => Len(Deletes) = run.next - 1

\* C29 witness: the delete command was given the identifiers 456 and 123; the
\* Delete of 456 succeeded, the Delete of 123 failed and the command has
\* returned the error about 123.
C29_Witness ==
    /\ run.command = "delete"
    /\ run.ids = <<"456", "123">>
    /\ Len(Deletes) = 2
    /\ Deletes[1].err = NoError
    /\ Deletes[2].err # NoError
    /\ run.done
    /\ run.err.msg = "failed to delete cluster '123': unavailable"

\* C30: when the configuration file does not exist, the get, delete, edit and
\* create commands fail with the error "there is no configuration, run the
\* 'login' command" before they create a connection or send a remote call.
C30_NoConfigurationFailsFirst ==
    run.file = "absent" =>
        /\ run.events = <<>>
        /\ run.done \/ Step(run) \in {"Load", "NilCheck"}
        /\ run.done =>
              run.err = New("there is no configuration, run the 'login' command")

====
